---- MODULE Spec2Model ----
(***************************************************************************)
(* Model of the DICOM ingestion service: the upload handler (app.py), the  *)
(* DicomSaver (utils/dicom_saver.py) and the RdsDataFetcher                *)
(* (utils/dicom_reader.py).                                                *)
(***************************************************************************)
EXTENDS Integers, Sequences, FiniteSets, TLC

----------------------------------------------------------------------------
(* Bounds of the model *)

\* total number of nodes (attributes and sequence items) of a decoded dataset
MaxNodes == 4
\* number of uploads in one behaviour
MaxRequests == 2
\* number of fetch_data calls in one behaviour
MaxFetches == 1
\* longest filters mapping handed to build_query
MaxFilters == 2
\* largest page number and page size handed to build_query
MaxPage == 2
MaxPageSize == 2

----------------------------------------------------------------------------
(* Decoded datasets (pydicom Dataset): a sequence of data elements in tag  *)
(* order.  An element carries keyword, VR and value; the value of an SQ    *)
(* element is the sequence of its item datasets (field items), the value   *)
(* of any other element is a scalar (field value).                         *)

\* keywords: a dictionary keyword, and "" which pydicom gives every private
\* or unknown tag
Keywords == {"PatientID", ""}
Values == {7, 12}

Leaf(k, v) == [keyword |-> k, VR |-> "LO", value |-> v, items |-> <<>>]
Sq(k, its) == [keyword |-> k, VR |-> "SQ", value |-> 0, items |-> its]

RECURSIVE DatasetsOfSize(_), ElementsOfSize(_), ItemListsOfSize(_)
\* datasets whose elements have n nodes in total
DatasetsOfSize(n) ==
    IF n = 0 THEN {<<>>}
    ELSE UNION {{<<e>> \o r : e \in ElementsOfSize(s), r \in DatasetsOfSize(n - s)}
                : s \in 1..n}
\* one element of n nodes: a scalar (1 node) or a sequence of items
ElementsOfSize(n) ==
    (IF n = 1 THEN {Leaf(k, v) : k \in Keywords, v \in Values} ELSE {})
    \cup {Sq(k, its) : k \in Keywords, its \in ItemListsOfSize(n - 1)}
\* item lists of n nodes: each item is one node plus its dataset's nodes
ItemListsOfSize(n) ==
    IF n = 0 THEN {<<>>}
    ELSE UNION {{<<d>> \o r : d \in DatasetsOfSize(s - 1), r \in ItemListsOfSize(n - s)}
                : s \in 1..n}

Datasets == UNION {DatasetsOfSize(n) : n \in 0..MaxNodes}

----------------------------------------------------------------------------
(* DicomSaver.flatten_dicom / extract_dicom_metadata                       *)

\* str(element.value)
Str(v) == ToString(v)

\* a flat_dicom entry: a string, or a list of flattened items
StrEntry(s) == [isList |-> FALSE, str |-> s, list |-> <<>>]
ListEntry(l) == [isList |-> TRUE, str |-> "", list |-> l]

\* mutant: the first write to a key wins
DictSet_KeepFirst(d, key, entry) ==
    [k \in (DOMAIN d) \cup {key} |-> IF k \in DOMAIN d THEN d[k] ELSE entry]

\* flat_dicom[key] = entry  (a later write to the same key wins)
DictSet(d, key, entry) ==
    [k \in (DOMAIN d) \cup {key} |-> IF k = key THEN entry ELSE d[k]]

EmptyDict == [k \in {} |-> StrEntry("")]

RECURSIVE flatten_dicom(_), FlattenLoop(_, _, _)
\* the body of `for element in dicom_data` from element i on
FlattenLoop(dicom_data, i, flat_dicom) ==
    IF i > Len(dicom_data) THEN flat_dicom
    ELSE LET element == dicom_data[i]
             entry == IF element.VR = "SQ"
                      THEN ListEntry([j \in 1..Len(element.items) |->
                                          flatten_dicom(element.items[j])])
                      ELSE StrEntry(Str(element.value))
         IN FlattenLoop(dicom_data, i + 1, DictSet(flat_dicom, element.keyword, entry))

flatten_dicom(dicom_data) == FlattenLoop(dicom_data, 1, EmptyDict)

extract_dicom_metadata(dicom_data) == FlattenLoop(dicom_data, 1, EmptyDict)

----------------------------------------------------------------------------
(* The stores and the control state of one worker.  process_and_save is    *)
(* called synchronously from the handler, so a worker runs one operation   *)
(* at a time; every external call (decoder, database, object store) may    *)
(* succeed or raise.                                                       *)

\* nodes of an uploaded file's dataset
MaxUploadNodes == 1

Filenames == {"a.dcm", "b.dcm"}

UploadDatasets == UNION {DatasetsOfSize(n) : n \in 0..MaxUploadNodes}

\* the uploaded bytes: pydicom.dcmread either decodes them or raises
DicomBytes == [valid : BOOLEAN, dataset : UploadDatasets]
NoBytes == [valid |-> FALSE, dataset |-> <<>>]

VARIABLES
    pc,          \* the statement the worker is at ("idle": between operations)
    op,          \* the operation that runs or ran last: "none", "upload", "fetch"
    req,         \* uploads started so far; the running upload's number
    fetches,     \* fetch_data calls started so far
    contents,    \* upload_file: contents
    filename,    \* upload_file: file.filename
    dicom_data,  \* process_and_save: dicom_data
    metadata,    \* process_and_save: metadata
    conn,        \* local conn: "unbound", "open", "closed"
    cursor,      \* local cursor: "unbound", "open", "closed"
    exc,         \* the exception in flight, "none" when there is none
    failed,      \* the database call of this operation that raised first
    rdsResult,   \* how save_to_rds ended: "none", "returned", "raised"
    pending,     \* rows inserted by the open transaction, not yet committed
    table,       \* committed rows of dicom_metadata_table (by upload number)
    bucket,      \* S3 bucket: key -> upload number whose bytes it holds (0: absent)
    openConns,   \* database connections currently open
    calls,       \* the calls made by the operation, in order
    response,    \* what upload_file answered: "none", "status200", "error500"
    data,        \* fetch_data: the value returned
    fetchResult, \* how fetch_data ended: "none", "returned", "raised"
    fl_in,       \* flattening: the dataset handed to extract_dicom_metadata
    fl_out,      \* flattening: the mapping it returned
    fl_done,     \* flattening: whether it has run
    q_args,      \* build_query: the arguments
    q_query,     \* build_query: the query string returned
    q_values,    \* example usage: filter_values bound to the query
    q_done       \* build_query: whether it has run

ivars == <<pc, op, req, fetches, contents, filename, dicom_data, metadata, conn,
           cursor, exc, failed, rdsResult, pending, table, bucket, openConns,
           calls, response, data, fetchResult>>

fvars == <<fl_in, fl_out, fl_done>>
qvars == <<q_args, q_query, q_values, q_done>>
vars == <<ivars, fvars, qvars>>

NoData == [none |-> TRUE, rows |-> {}]

IngestInit ==
    /\ pc = "idle"
    /\ op = "none"
    /\ req = 0
    /\ fetches = 0
    /\ contents = NoBytes
    /\ filename = ""
    /\ dicom_data = <<>>
    /\ metadata = EmptyDict
    /\ conn = "unbound"
    /\ cursor = "unbound"
    /\ exc = "none"
    /\ failed = "none"
    /\ rdsResult = "none"
    /\ pending = {}
    /\ table = {}
    /\ bucket = [f \in Filenames |-> 0]
    /\ openConns = 0
    /\ calls = <<>>
    /\ response = "none"
    /\ data = NoData
    /\ fetchResult = "none"

\* what a new operation starts from: fresh locals, nothing recorded
Fresh ==
    /\ dicom_data' = <<>>
    /\ metadata' = EmptyDict
    /\ conn' = "unbound"
    /\ cursor' = "unbound"
    /\ exc' = "none"
    /\ failed' = "none"
    /\ rdsResult' = "none"
    /\ calls' = <<>>
    /\ response' = "none"
    /\ data' = NoData
    /\ fetchResult' = "none"

Call(name) == calls' = Append(calls, name)

----------------------------------------------------------------------------
(* app.upload_file and DicomSaver.process_and_save                         *)

\* POST /upload/: contents = await file.read(); process_and_save is entered
UploadStart ==
    /\ UNCHANGED <<fvars, qvars>>
    /\ pc = "idle"
    /\ req < MaxRequests
    /\ \E c \in DicomBytes, f \in Filenames :
          /\ c.valid \/ c.dataset = <<>>
          /\ contents' = c
          /\ filename' = f
    /\ req' = req + 1
    /\ op' = "upload"
    /\ pc' = "dcmread"
    /\ Fresh
    /\ UNCHANGED <<fetches, pending, table, bucket, openConns>>

\* mutant: a decode failure is recorded but the ingestion goes on
Dcmread_Continue ==
    /\ UNCHANGED <<fvars, qvars>>
    /\ pc = "dcmread"
    /\ Call("dcmread")
    /\ IF contents.valid
       THEN /\ dicom_data' = contents.dataset
            /\ exc' = exc
       ELSE /\ exc' = "InvalidDicomError"
            /\ dicom_data' = dicom_data
    /\ pc' = "extract"
    /\ UNCHANGED <<op, req, fetches, contents, filename, metadata, conn, cursor,
                   failed, rdsResult, pending, table, bucket, openConns,
                   response, data, fetchResult>>

\* dicom_data = pydicom.dcmread(io.BytesIO(dicom_bytes))
Dcmread ==
    /\ UNCHANGED <<fvars, qvars>>
    /\ pc = "dcmread"
    /\ Call("dcmread")
    /\ IF contents.valid
       THEN /\ dicom_data' = contents.dataset
            /\ pc' = "extract"
            /\ exc' = exc
       ELSE /\ exc' = "InvalidDicomError"
            /\ pc' = "respond"
            /\ dicom_data' = dicom_data
    /\ UNCHANGED <<op, req, fetches, contents, filename, metadata, conn, cursor,
                   failed, rdsResult, pending, table, bucket, openConns,
                   response, data, fetchResult>>

\* mutant: the blob is written before the metadata is saved
Extract_BlobFirst ==
    /\ UNCHANGED <<fvars, qvars>>
    /\ pc = "extract"
    /\ Call("extract_dicom_metadata")
    /\ metadata' = extract_dicom_metadata(dicom_data)
    /\ pc' = "s3_put"
    /\ UNCHANGED <<op, req, fetches, contents, filename, dicom_data, conn, cursor,
                   exc, failed, rdsResult, pending, table, bucket, openConns,
                   response, data, fetchResult>>

\* metadata = self.extract_dicom_metadata(dicom_data); save_to_rds is entered
Extract ==
    /\ UNCHANGED <<fvars, qvars>>
    /\ pc = "extract"
    /\ Call("extract_dicom_metadata")
    /\ metadata' = extract_dicom_metadata(dicom_data)
    /\ pc' = "rds_connect"
    /\ UNCHANGED <<op, req, fetches, contents, filename, dicom_data, conn, cursor,
                   exc, failed, rdsResult, pending, table, bucket, openConns,
                   response, data, fetchResult>>

----------------------------------------------------------------------------
(* DicomSaver.save_to_rds                                                  *)

\* conn = psycopg2.connect(...)
RdsConnect ==
    /\ UNCHANGED <<fvars, qvars>>
    /\ pc = "rds_connect"
    /\ Call("connect")
    /\ \/ /\ conn' = "open"
          /\ openConns' = openConns + 1
          /\ pc' = "rds_cursor"
          /\ UNCHANGED <<exc, failed>>
       \/ /\ exc' = "OperationalError"
          /\ failed' = "connect"
          /\ pc' = "rds_except"
          /\ UNCHANGED <<conn, openConns>>
    /\ UNCHANGED <<op, req, fetches, contents, filename, dicom_data, metadata,
                   cursor, rdsResult, pending, table, bucket, response, data,
                   fetchResult>>

\* cursor = conn.cursor()
RdsCursor ==
    /\ UNCHANGED <<fvars, qvars>>
    /\ pc = "rds_cursor"
    /\ Call("cursor")
    /\ \/ /\ cursor' = "open"
          /\ pc' = "rds_execute"
          /\ UNCHANGED <<exc, failed>>
       \/ /\ exc' = "OperationalError"
          /\ failed' = "cursor"
          /\ pc' = "rds_except"
          /\ UNCHANGED cursor
    /\ UNCHANGED <<op, req, fetches, contents, filename, dicom_data, metadata,
                   conn, rdsResult, pending, table, bucket, openConns, response,
                   data, fetchResult>>

\* cursor.execute("INSERT INTO dicom_metadata_table ...", (json.dumps(metadata),))
RdsExecute ==
    /\ UNCHANGED <<fvars, qvars>>
    /\ pc = "rds_execute"
    /\ Call("execute")
    /\ \/ /\ pending' = pending \cup {req}
          /\ pc' = "rds_commit"
          /\ UNCHANGED <<exc, failed>>
       \/ /\ exc' = "OperationalError"
          /\ failed' = "execute"
          /\ pc' = "rds_except"
          /\ UNCHANGED pending
    /\ UNCHANGED <<op, req, fetches, contents, filename, dicom_data, metadata,
                   conn, cursor, rdsResult, table, bucket, openConns, response,
                   data, fetchResult>>

\* conn.commit(); print(...)
RdsCommit ==
    /\ UNCHANGED <<fvars, qvars>>
    /\ pc = "rds_commit"
    /\ Call("commit")
    /\ \/ /\ table' = table \cup pending
          /\ pending' = {}
          /\ pc' = "rds_cursor_close"
          /\ UNCHANGED <<exc, failed>>
       \/ /\ exc' = "OperationalError"
          /\ failed' = "commit"
          /\ pc' = "rds_except"
          /\ UNCHANGED <<table, pending>>
    /\ UNCHANGED <<op, req, fetches, contents, filename, dicom_data, metadata,
                   conn, cursor, rdsResult, bucket, openConns, response, data,
                   fetchResult>>

\* except Exception as e: conn.rollback(); print(...)
\* An unbound conn raises UnboundLocalError out of the handler; a rollback that
\* raises replaces the exception; otherwise the exception is handled here.
RdsExcept ==
    /\ UNCHANGED <<fvars, qvars>>
    /\ pc = "rds_except"
    /\ pc' = "rds_cursor_close"
    /\ IF conn = "unbound"
       THEN /\ exc' = "UnboundLocalError"
            /\ UNCHANGED <<pending, calls>>
       ELSE /\ Call("rollback")
            /\ \/ /\ pending' = {}
                  /\ exc' = "none"
               \/ /\ exc' = "OperationalError"
                  /\ UNCHANGED pending
    /\ UNCHANGED <<op, req, fetches, contents, filename, dicom_data, metadata,
                   conn, cursor, failed, rdsResult, table, bucket, openConns,
                   response, data, fetchResult>>

\* finally: cursor.close()
\* An unbound cursor raises UnboundLocalError and conn.close() is skipped.
RdsCursorClose ==
    /\ UNCHANGED <<fvars, qvars>>
    /\ pc = "rds_cursor_close"
    /\ IF cursor = "unbound"
       THEN /\ exc' = "UnboundLocalError"
            /\ pc' = "rds_return"
            /\ UNCHANGED <<cursor, calls>>
       ELSE /\ Call("cursor.close")
            /\ cursor' = "closed"
            /\ pc' = "rds_conn_close"
            /\ UNCHANGED exc
    /\ UNCHANGED <<op, req, fetches, contents, filename, dicom_data, metadata,
                   conn, failed, rdsResult, pending, table, bucket, openConns,
                   response, data, fetchResult>>

\* finally: conn.close()  (an uncommitted transaction is discarded)
RdsConnClose ==
    /\ UNCHANGED <<fvars, qvars>>
    /\ pc = "rds_conn_close"
    /\ Call("conn.close")
    /\ conn' = "closed"
    /\ openConns' = openConns - 1
    /\ pending' = {}
    /\ pc' = "rds_return"
    /\ UNCHANGED <<op, req, fetches, contents, filename, dicom_data, metadata,
                   cursor, exc, failed, rdsResult, table, bucket, response,
                   data, fetchResult>>

\* save_to_rds ends: back in process_and_save, which goes on to save_to_s3
\* unless an exception is in flight
RdsReturn ==
    /\ UNCHANGED <<fvars, qvars>>
    /\ pc = "rds_return"
    /\ rdsResult' = IF exc = "none" THEN "returned" ELSE "raised"
    /\ pc' = IF exc = "none" THEN "s3_put" ELSE "respond"
    /\ UNCHANGED <<op, req, fetches, contents, filename, dicom_data, metadata,
                   conn, cursor, exc, failed, pending, table, bucket, openConns,
                   calls, response, data, fetchResult>>

----------------------------------------------------------------------------
(* DicomSaver.save_to_s3                                                   *)

\* mutant: a failed blob write deletes the ingestion's metadata row
S3Put_Compensate ==
    /\ UNCHANGED <<fvars, qvars>>
    /\ pc = "s3_put"
    /\ Call("put_object")
    /\ \/ /\ bucket' = [bucket EXCEPT ![filename] = req]
          /\ UNCHANGED <<exc, table>>
       \/ /\ exc' = "ClientError"
          /\ table' = table \ {req}
          /\ UNCHANGED bucket
    /\ pc' = "respond"
    /\ UNCHANGED <<op, req, fetches, contents, filename, dicom_data, metadata,
                   conn, cursor, failed, rdsResult, pending, openConns,
                   response, data, fetchResult>>

\* s3_client.put_object(Bucket=self.s3_bucket, Key=filename, Body=dicom_bytes)
S3Put ==
    /\ UNCHANGED <<fvars, qvars>>
    /\ pc = "s3_put"
    /\ Call("put_object")
    /\ \/ /\ bucket' = [bucket EXCEPT ![filename] = req]
          /\ UNCHANGED exc
       \/ /\ exc' = "ClientError"
          /\ UNCHANGED bucket
    /\ pc' = "respond"
    /\ UNCHANGED <<op, req, fetches, contents, filename, dicom_data, metadata,
                   conn, cursor, failed, rdsResult, pending, table, openConns,
                   response, data, fetchResult>>

\* upload_file: return {"status": 200}, or the exception leaves the handler
Respond ==
    /\ UNCHANGED <<fvars, qvars>>
    /\ pc = "respond"
    /\ response' = IF exc = "none" THEN "status200" ELSE "error500"
    /\ pc' = "idle"
    /\ contents' = NoBytes
    /\ filename' = ""
    /\ dicom_data' = <<>>
    /\ metadata' = EmptyDict
    /\ UNCHANGED <<op, req, fetches, conn, cursor, exc, failed, rdsResult,
                   pending, table, bucket, openConns, calls, data, fetchResult>>

----------------------------------------------------------------------------
(* RdsDataFetcher.fetch_data                                               *)

FetchStart ==
    /\ UNCHANGED <<fvars, qvars>>
    /\ pc = "idle"
    /\ fetches < MaxFetches
    /\ fetches' = fetches + 1
    /\ op' = "fetch"
    /\ pc' = "f_connect"
    /\ Fresh
    /\ UNCHANGED <<req, contents, filename, pending, table, bucket, openConns>>

\* conn = psycopg2.connect(...)
FetchConnect ==
    /\ UNCHANGED <<fvars, qvars>>
    /\ pc = "f_connect"
    /\ Call("connect")
    /\ \/ /\ conn' = "open"
          /\ openConns' = openConns + 1
          /\ pc' = "f_cursor"
          /\ UNCHANGED <<exc, failed>>
       \/ /\ exc' = "OperationalError"
          /\ failed' = "connect"
          /\ pc' = "f_except"
          /\ UNCHANGED <<conn, openConns>>
    /\ UNCHANGED <<op, req, fetches, contents, filename, dicom_data, metadata,
                   cursor, rdsResult, pending, table, bucket, response, data,
                   fetchResult>>

\* cursor = conn.cursor()
FetchCursor ==
    /\ UNCHANGED <<fvars, qvars>>
    /\ pc = "f_cursor"
    /\ Call("cursor")
    /\ \/ /\ cursor' = "open"
          /\ pc' = "f_execute"
          /\ UNCHANGED <<exc, failed>>
       \/ /\ exc' = "OperationalError"
          /\ failed' = "cursor"
          /\ pc' = "f_except"
          /\ UNCHANGED cursor
    /\ UNCHANGED <<op, req, fetches, contents, filename, dicom_data, metadata,
                   conn, rdsResult, pending, table, bucket, openConns, response,
                   data, fetchResult>>

\* cursor.execute(query, filter_values)
FetchExecute ==
    /\ UNCHANGED <<fvars, qvars>>
    /\ pc = "f_execute"
    /\ Call("execute")
    /\ \/ /\ pc' = "f_fetchall"
          /\ UNCHANGED <<exc, failed>>
       \/ /\ exc' = "OperationalError"
          /\ failed' = "execute"
          /\ pc' = "f_except"
    /\ UNCHANGED <<op, req, fetches, contents, filename, dicom_data, metadata,
                   conn, cursor, rdsResult, pending, table, bucket, openConns,
                   response, data, fetchResult>>

\* data = cursor.fetchall(); return data  (the finally block runs first)
FetchFetchall ==
    /\ UNCHANGED <<fvars, qvars>>
    /\ pc = "f_fetchall"
    /\ Call("fetchall")
    /\ \/ /\ data' = [none |-> FALSE, rows |-> table]
          /\ pc' = "f_cursor_close"
          /\ UNCHANGED <<exc, failed>>
       \/ /\ exc' = "OperationalError"
          /\ failed' = "fetchall"
          /\ pc' = "f_except"
          /\ UNCHANGED data
    /\ UNCHANGED <<op, req, fetches, contents, filename, dicom_data, metadata,
                   conn, cursor, rdsResult, pending, table, bucket, openConns,
                   response, fetchResult>>

\* except Exception as e: print(...)
FetchExcept ==
    /\ UNCHANGED <<fvars, qvars>>
    /\ pc = "f_except"
    /\ exc' = "none"
    /\ pc' = "f_cursor_close"
    /\ UNCHANGED <<op, req, fetches, contents, filename, dicom_data, metadata,
                   conn, cursor, failed, rdsResult, pending, table, bucket,
                   openConns, calls, response, data, fetchResult>>

\* finally: cursor.close()
\* An unbound cursor raises UnboundLocalError and conn.close() is skipped.
FetchCursorClose ==
    /\ UNCHANGED <<fvars, qvars>>
    /\ pc = "f_cursor_close"
    /\ IF cursor = "unbound"
       THEN /\ exc' = "UnboundLocalError"
            /\ pc' = "f_return"
            /\ UNCHANGED <<cursor, calls>>
       ELSE /\ Call("cursor.close")
            /\ cursor' = "closed"
            /\ pc' = "f_conn_close"
            /\ UNCHANGED exc
    /\ UNCHANGED <<op, req, fetches, contents, filename, dicom_data, metadata,
                   conn, failed, rdsResult, pending, table, bucket, openConns,
                   response, data, fetchResult>>

\* finally: conn.close()
FetchConnClose ==
    /\ UNCHANGED <<fvars, qvars>>
    /\ pc = "f_conn_close"
    /\ Call("conn.close")
    /\ conn' = "closed"
    /\ openConns' = openConns - 1
    /\ pc' = "f_return"
    /\ UNCHANGED <<op, req, fetches, contents, filename, dicom_data, metadata,
                   cursor, exc, failed, rdsResult, pending, table, bucket,
                   response, data, fetchResult>>

\* fetch_data ends: it returns data (None after a handled error) or raises
FetchReturn ==
    /\ UNCHANGED <<fvars, qvars>>
    /\ pc = "f_return"
    /\ fetchResult' = IF exc = "none" THEN "returned" ELSE "raised"
    /\ data' = IF exc = "none" THEN data ELSE NoData
    /\ pc' = "idle"
    /\ UNCHANGED <<op, req, fetches, contents, filename, dicom_data, metadata,
                   conn, cursor, exc, failed, rdsResult, pending, table, bucket,
                   openConns, calls, response>>

----------------------------------------------------------------------------
(* RdsDataFetcher.build_query and the example usage's filter_values        *)

\* an optional argument: None, or a value
None(dflt) == [none |-> TRUE, val |-> dflt]
Some(x) == [none |-> FALSE, val |-> x]

DefaultPage == 1
DefaultPageSize == 10

RECURSIVE Join_Reversed(_, _)
\* mutant: the strings are joined last to first
Join_Reversed(sep, strs) ==
    IF Len(strs) = 0 THEN ""
    ELSE IF Len(strs) = 1 THEN strs[1]
    ELSE Join_Reversed(sep, Tail(strs)) \o sep \o strs[1]

RECURSIVE Join(_, _)
\* sep.join(strs)
Join(sep, strs) ==
    IF Len(strs) = 0 THEN ""
    ELSE IF Len(strs) = 1 THEN strs[1]
    ELSE strs[1] \o sep \o Join(sep, Tail(strs))

\* mutant: the offset of page n is n * page_size
Offset_FromPage(page, page_size) == page * page_size

\* offset = (page - 1) * page_size
Offset(page, page_size) == (page - 1) * page_size

\* truthiness of the arguments
TruthyDict(filters) == ~filters.none /\ Len(filters.val) > 0
TruthyStr(s) == ~s.none /\ s.val # ""
TruthyInt(n) == n # 0

\* filter_conditions.append(f"{key} = %s") for key, value in filters.items()
FilterCondition(item) == item.key \o " = %s"

build_query(base_query, filters, sort_by, sort_order, page, page_size) ==
    LET q1 == IF TruthyDict(filters)
              THEN base_query \o " WHERE " \o
                   Join(" AND ", [i \in 1..Len(filters.val) |->
                                      FilterCondition(filters.val[i])])
              ELSE base_query
        q2 == IF TruthyStr(sort_by)
              THEN q1 \o " ORDER BY " \o sort_by.val \o " " \o sort_order
              ELSE q1
        q3 == IF TruthyInt(page) /\ TruthyInt(page_size)
              THEN LET offset == Offset(page, page_size)
                   IN q2 \o " OFFSET " \o ToString(offset) \o
                      " LIMIT " \o ToString(page_size)
              ELSE q2
    IN q3

\* filter_values = list(filters.values()) if filters else None
filter_values(filters) ==
    IF TruthyDict(filters)
    THEN Some([i \in 1..Len(filters.val) |-> filters.val[i].value])
    ELSE None(<<>>)

\* the arguments build_query is tried on
FilterKeys == {"a", "b", "c"}
FilterVals == {1, 2}
BaseQueries == {"SELECT * FROM your_table"}
SortColumns == {"column3"}

RECURSIVE DictsOfLen(_)
\* mappings (in insertion order) of n distinct keys
DictsOfLen(n) ==
    IF n = 0 THEN {<<>>}
    ELSE {Append(d, [key |-> k, value |-> v]) :
             d \in DictsOfLen(n - 1), k \in FilterKeys, v \in FilterVals}

DistinctKeys(d) == \A i, j \in 1..Len(d) : d[i].key = d[j].key => i = j

FilterDicts ==
    {d \in UNION {DictsOfLen(n) : n \in 0..MaxFilters} : DistinctKeys(d)}

QueryArgs ==
    [base_query : BaseQueries,
     filters    : {None(<<>>)} \cup {Some(d) : d \in FilterDicts},
     sort_by    : {None(""), Some("")} \cup {Some(c) : c \in SortColumns},
     sort_order : {"asc", "desc"},
     page       : (-1..MaxPage) \cup {DefaultPage},
     page_size  : (0..MaxPageSize) \cup {DefaultPageSize}]

NoArgs == CHOOSE a \in QueryArgs : TRUE

----------------------------------------------------------------------------
(* Specifications                                                          *)

PureIdle ==
    /\ fl_in = <<>>
    /\ fl_out = EmptyDict
    /\ fl_done = FALSE
    /\ q_args = NoArgs
    /\ q_query = ""
    /\ q_values = None(<<>>)
    /\ q_done = FALSE

\* the service: uploads and fetches, one at a time
Init == IngestInit /\ PureIdle

Next ==
    \/ UploadStart
    \/ Dcmread
    \/ Extract
    \/ RdsConnect
    \/ RdsCursor
    \/ RdsExecute
    \/ RdsCommit
    \/ RdsExcept
    \/ RdsCursorClose
    \/ RdsConnClose
    \/ RdsReturn
    \/ S3Put
    \/ Respond
    \/ FetchStart
    \/ FetchConnect
    \/ FetchCursor
    \/ FetchExecute
    \/ FetchFetchall
    \/ FetchExcept
    \/ FetchCursorClose
    \/ FetchConnClose
    \/ FetchReturn

Spec == Init /\ [][Next]_vars

\* extract_dicom_metadata applied to every bounded dataset
FlattenInit ==
    /\ IngestInit
    /\ fl_in \in Datasets
    /\ fl_out = EmptyDict
    /\ fl_done = FALSE
    /\ q_args = NoArgs
    /\ q_query = ""
    /\ q_values = None(<<>>)
    /\ q_done = FALSE

ExtractMetadata ==
    /\ ~fl_done
    /\ fl_out' = extract_dicom_metadata(fl_in)
    /\ fl_done' = TRUE
    /\ UNCHANGED <<fl_in, ivars, qvars>>

SpecFlatten == FlattenInit /\ [][ExtractMetadata]_vars

\* build_query applied to every bounded argument list, with the example
\* usage's filter_values
QueryInit ==
    /\ IngestInit
    /\ fl_in = <<>>
    /\ fl_out = EmptyDict
    /\ fl_done = FALSE
    /\ q_args \in QueryArgs
    /\ q_query = ""
    /\ q_values = None(<<>>)
    /\ q_done = FALSE

BuildQuery ==
    /\ ~q_done
    /\ q_query' = build_query(q_args.base_query, q_args.filters, q_args.sort_by,
                              q_args.sort_order, q_args.page, q_args.page_size)
    /\ q_values' = filter_values(q_args.filters)
    /\ q_done' = TRUE
    /\ UNCHANGED <<q_args, ivars, fvars>>

SpecQuery == QueryInit /\ [][BuildQuery]_vars

----------------------------------------------------------------------------
(* Properties                                                              *)

Called(name) == \E i \in 1..Len(calls) : calls[i] = name
TimesCalled(name) == Cardinality({i \in 1..Len(calls) : calls[i] = name})
StartsWith(s, p) == Len(s) >= Len(p) /\ SubSeq(s, 1, Len(p)) = p
EndsWith(s, p) == Len(s) >= Len(p) /\ SubSeq(s, Len(s) - Len(p) + 1, Len(s)) = p

\* C1: an ingestion whose metadata persistence step failed (connect, cursor,
\* insert or commit raised) never calls put_object.
C1_NoBlobAfterPersistFailure ==
    (op = "upload" /\ failed # "none") => ~Called("put_object")

\* C2: an ingestion whose decode step failed made no call after dcmread
\* (neither save_to_rds nor save_to_s3 ran), and neither the metadata table
\* nor the bucket holds anything of that ingestion.
C2_DecodeFailureNoSideEffects ==
    (op = "upload" /\ exc = "InvalidDicomError") =>
        /\ calls = <<"dcmread">>
        /\ rdsResult = "none"
        /\ req \notin table
        /\ req \notin pending
        /\ \A f \in Filenames : bucket[f] # req

\* C2 witness: a second upload was rejected by the decoder and answered with
\* an error while the first upload's row is in the table.
C2_Witness ==
    /\ pc = "idle"
    /\ op = "upload"
    /\ req = 2
    /\ exc = "InvalidDicomError"
    /\ response = "error500"
    /\ table = {1}

\* the commit of the running ingestion succeeded
Committed == Called("commit") /\ failed = "none"

\* C3: when save_to_rds committed the row and put_object then raised, the row
\* stays in the table (no rollback, no compensating delete) and the handler
\* ends with the error, not with the success body.
C3_RowKeptWhenBlobFails ==
    (op = "upload" /\ Committed /\ exc = "ClientError") =>
        /\ req \in table
        /\ ~Called("rollback")
        /\ calls[Len(calls)] = "put_object"
        /\ response # "status200"
        /\ (pc = "idle" => response = "error500")

\* C3 witness: the ingestion has ended, its row is committed, its blob write
\* failed and the caller got the error.
C3_Witness ==
    /\ pc = "idle"
    /\ op = "upload"
    /\ Committed
    /\ exc = "ClientError"
    /\ req \in table
    /\ \A f \in Filenames : bucket[f] # req
    /\ response = "error500"

\* C4: when a step of save_to_rds raised, the call ends by raising (the error
\* is not swallowed), with no row of this ingestion inserted or pending.
C4_RdsErrorReported ==
    (op = "upload" /\ rdsResult # "none" /\ failed # "none") =>
        /\ rdsResult = "raised"
        /\ req \notin table
        /\ req \notin pending

\* C5: the handler returns the success body only when no phase failed, the
\* metadata row is committed and the blob is stored.
C5_SuccessOnlyWhenStored ==
    (op = "upload" /\ response = "status200") =>
        /\ failed = "none"
        /\ req \in table
        /\ \E f \in Filenames : bucket[f] = req

\* the WHERE conditions the claim expects, built from the last key backwards
RECURSIVE ExpectedWhere(_, _)
ExpectedWhere(d, placeholder) ==
    IF Len(d) = 1 THEN d[1].key \o " = " \o placeholder
    ELSE ExpectedWhere(SubSeq(d, 1, Len(d) - 1), placeholder)
         \o " AND " \o d[Len(d)].key \o " = " \o placeholder

\* what may follow the WHERE clause: nothing, the sort or the pagination
AfterWhere(rest) ==
    rest = "" \/ StartsWith(rest, " ORDER BY ") \/ StartsWith(rest, " OFFSET ")

WhereClauseIs(clause) ==
    LET w == q_args.base_query \o clause
    IN /\ StartsWith(q_query, w)
       /\ AfterWhere(SubSeq(q_query, Len(w) + 1, Len(q_query)))

ValuesInOrder ==
    q_values = Some([i \in 1..Len(q_args.filters.val) |-> q_args.filters.val[i].value])

\* C6 as stated: for any filters mapping the query is the base query plus a
\* WHERE clause of one `key = ?` condition per key, ANDed in mapping order, and
\* the bound values are in the same order.
C6_WhereClauseQuestionMark ==
    (q_done /\ ~q_args.filters.none) =>
        /\ WhereClauseIs(" WHERE " \o (IF Len(q_args.filters.val) = 0 THEN ""
                                       ELSE ExpectedWhere(q_args.filters.val, "?")))
        /\ ValuesInOrder

\* C6 amended: for any non-empty filters mapping the query is the base query
\* plus a WHERE clause of one `key = %s` condition per key, ANDed in mapping
\* order, and the bound values are in the same order; for an empty or absent
\* mapping no WHERE clause is appended and no values are bound.
C6_WhereClause ==
    q_done =>
        IF ~q_args.filters.none /\ Len(q_args.filters.val) > 0
        THEN /\ WhereClauseIs(" WHERE " \o ExpectedWhere(q_args.filters.val, "%s"))
             /\ ValuesInOrder
        ELSE /\ WhereClauseIs("")
             /\ q_values.none

\* C6 witness: filters {a: 1, b: 2}
C6_Witness ==
    /\ q_done
    /\ q_args.filters = Some(<<[key |-> "a", value |-> 1], [key |-> "b", value |-> 2]>>)
    /\ StartsWith(q_query, "SELECT * FROM your_table WHERE a = %s AND b = %s")
    /\ q_values = Some(<<1, 2>>)

\* C7: with no filters, no sort_by and page=1, page_size=10 the query is the
\* base query followed by " OFFSET 0 LIMIT 10"; whenever pagination is
\* appended the offset is (page-1)*page_size and the limit is page_size.
C7_Pagination ==
    q_done =>
        /\ (/\ ~TruthyDict(q_args.filters)
            /\ ~TruthyStr(q_args.sort_by)
            /\ q_args.page = 1
            /\ q_args.page_size = 10)
           => q_query = q_args.base_query \o " OFFSET 0 LIMIT 10"
        /\ (q_args.page # 0 /\ q_args.page_size # 0)
           => EndsWith(q_query,
                       " OFFSET " \o ToString((q_args.page - 1) * q_args.page_size)
                       \o " LIMIT " \o ToString(q_args.page_size))

\* C7 witness: the default call, and a later page
C7_Witness ==
    /\ q_done
    /\ q_args.filters.none
    /\ q_args.sort_by.none
    /\ q_args.page = 1
    /\ q_args.page_size = 10
    /\ q_query = "SELECT * FROM your_table OFFSET 0 LIMIT 10"

\* the last element of ds that carries keyword k
LastWith(ds, k) ==
    ds[CHOOSE i \in 1..Len(ds) :
           /\ ds[i].keyword = k
           /\ \A j \in (i + 1)..Len(ds) : ds[j].keyword # k]

RECURSIVE EntryIsFlatOf(_, _), IsFlatOf(_, _), IsFlatOfEvery(_, _)
\* entry is the flattened form of element e
EntryIsFlatOf(entry, e) ==
    IF e.VR = "SQ"
    THEN /\ entry.isList
         /\ Len(entry.list) = Len(e.items)
         /\ \A j \in 1..Len(e.items) : IsFlatOf(entry.list[j], e.items[j])
    ELSE /\ ~entry.isList
         /\ entry.str = ToString(e.value)
\* m has one entry per keyword of ds, that of the last element carrying it
IsFlatOf(m, ds) ==
    /\ DOMAIN m = {ds[i].keyword : i \in 1..Len(ds)}
    /\ \A k \in DOMAIN m : EntryIsFlatOf(m[k], LastWith(ds, k))

\* m has one entry per keyword of ds and every element of ds maps to its form
IsFlatOfEvery(m, ds) ==
    /\ DOMAIN m = {ds[i].keyword : i \in 1..Len(ds)}
    /\ \A i \in 1..Len(ds) :
          LET e == ds[i]
              entry == m[e.keyword]
          IN IF e.VR = "SQ"
             THEN /\ entry.isList
                  /\ Len(entry.list) = Len(e.items)
                  /\ \A j \in 1..Len(e.items) : IsFlatOfEvery(entry.list[j], e.items[j])
             ELSE /\ ~entry.isList
                  /\ entry.str = ToString(e.value)

\* C8 as stated: the mapping has one entry per keyword; every non-sequence
\* attribute maps to the string form of its value and every sequence
\* attribute to the list of its recursively flattened items, in source order
\* and of the same length.
C8_EveryAttributeMapped == fl_done => IsFlatOfEvery(fl_out, fl_in)

\* C8 amended: the mapping has one entry per keyword, that of the last
\* attribute carrying the keyword (at every nesting level): the string form of
\* its value, or the list of its recursively flattened items, in source order
\* and of the same length.
C8_LastAttributeMapped == fl_done => IsFlatOf(fl_out, fl_in)

\* C8 witness: two attributes share a keyword; the last one is a sequence with
\* a non-empty item, and the keyword maps to the list of its flattened items.
C8_Witness ==
    /\ fl_done
    /\ \E i, j \in 1..Len(fl_in) :
          /\ i < j
          /\ fl_in[i].keyword = fl_in[j].keyword
          /\ fl_in[i].VR # "SQ"
          /\ fl_in[j].VR = "SQ"
          /\ Len(fl_in[j].items) > 0
          /\ fl_in[j].items[1] # <<>>
          /\ fl_out[fl_in[j].keyword].isList
          /\ DOMAIN fl_out[fl_in[j].keyword].list[1] # {}

\* C9: when save_to_rds or fetch_data ends, by returning or raising, the
\* connection it opened is closed.
C9_ConnectionClosedOnExit ==
    pc \in {"rds_return", "f_return"} => conn # "open"

\* the first position of a call in the log (0: not called)
FirstCall(name) ==
    IF Called(name) THEN CHOOSE i \in 1..Len(calls) :
                             calls[i] = name /\ \A j \in 1..(i - 1) : calls[j] # name
    ELSE 0

Before(a, b) == (Called(a) /\ Called(b)) => FirstCall(a) < FirstCall(b)

\* C10: in one ingestion decode, flatten, metadata save and blob save happen
\* in that order: put_object is called only after save_to_rds has ended and
\* is the last call; the insert and the blob write are each attempted at most
\* once.
C10_FixedOrderNoRetry ==
    op = "upload" =>
        /\ Called("put_object") =>
              /\ rdsResult # "none"
              /\ calls[Len(calls)] = "put_object"
              /\ Called("connect")
        /\ Called("connect") => Called("extract_dicom_metadata")
        /\ Called("extract_dicom_metadata") => Called("dcmread")
        /\ Before("dcmread", "extract_dicom_metadata")
        /\ Before("extract_dicom_metadata", "connect")
        /\ Before("connect", "put_object")
        /\ Before("execute", "put_object")
        /\ Before("commit", "put_object")
        /\ TimesCalled("execute") <= 1
        /\ TimesCalled("put_object") <= 1
        /\ TimesCalled("dcmread") <= 1
        /\ TimesCalled("connect") <= 1

\* C10 witness: a complete ingestion: all four steps ran, ending with the blob
\* write.
C10_Witness ==
    /\ pc = "idle"
    /\ op = "upload"
    /\ calls = <<"dcmread", "extract_dicom_metadata", "connect", "cursor",
                 "execute", "commit", "cursor.close", "conn.close", "put_object">>
    /\ response = "status200"
====
